---- MODULE Spec2Model ----
(***************************************************************************)
(* Model of the node-local port claim watcher                              *)
(* (go-controller/pkg/node/port_claim.go).                                 *)
(*                                                                         *)
(* The watcher keeps portsMap, a map from utilnet.LocalPort (description,  *)
(* IP, port, protocol) to the Closeable returned by the port opener,       *)
(* guarded by activeSocketsLock.  Service event handlers (Add, Update,     *)
(* Delete) derive the claims of a Service and call open / close for each   *)
(* of them.  Handlers of distinct Services run concurrently; each handler  *)
(* is a thread of the model.                                               *)
(***************************************************************************)
EXTENDS Naturals, Sequences, FiniteSets, TLC

VARIABLES
    portsMap,     \* portClaimWatcher.portsMap: LocalPort -> handle
    lock,         \* portClaimWatcher.activeSocketsLock: 0 (free) or the holder
    sockets,      \* the OS side: one record per Closeable ever returned
    pc,           \* per handler thread: where it stands
    ev,           \* per thread: the event being (or last) handled
    queue,        \* per thread: the handlePort calls still to make
    cur,          \* per thread: the LocalPort of the open/close in progress
    calls,        \* per thread: handler (open/close) calls made in this event
    errors,       \* per thread: the []error of this event so far
    osCalls,      \* per thread: OS primitives invoked in this event
    events,       \* per thread: warning events emitted in this event
    failedClose,  \* history: LocalPorts whose last Close() returned an error
    lastOpen,     \* history: the last insert into the map and the map before
                  \* it, while no other entry has changed since
    store         \* per thread: the watch layer's current object of the Service

vars == <<portsMap, lock, sockets, pc, ev, queue, cur, calls, errors, osCalls,
          events, failedClose, lastOpen, store>>

(***************************************************************************)
(* Bounds and value domains                                                *)
(***************************************************************************)
\* Closeables the OS hands out in one run; further opens fail.
MaxHandles == 3

Threads == {1, 2}

ProtocolTCP == "TCP"
ProtocolUDP == "UDP"
ProtocolSCTP == "SCTP"
\* A kapi.Protocol value that is none of the three.
ProtocolUnknown == "ICMP"

nodePortDescr == "nodePort for"
externalPortDescr == "externalIP for"

LocalIP == "10.0.0.1"
RemoteIP == "192.0.2.7"

\* portClaimWatcher.localAddrSet: the node's addresses, fixed at start-up.
localAddrSet == {LocalIP}

None == [kind |-> "None"]

Nil == "nil"

(***************************************************************************)
(* Service objects (kapi.Service, the fields the handlers read)            *)
(***************************************************************************)
ServicePort(name, protocol, port, nodePort) ==
    [name |-> name, protocol |-> protocol, port |-> port, nodePort |-> nodePort]

Service(namespace, name, type, ports, externalIPs) ==
    [namespace |-> namespace, name |-> name, type |-> type, ports |-> ports,
     externalIPs |-> externalIPs]

SvcName(t) == IF t = 1 THEN "svcA" ELSE "svcB"

pWeb == ServicePort("", ProtocolTCP, 8080, 30080)
pDns == ServicePort("dns", ProtocolUDP, 53, 0)
pWebNoNodePort == ServicePort("", ProtocolTCP, 8080, 0)
pSctp == ServicePort("sctp", ProtocolSCTP, 9899, 30899)

(***************************************************************************)
(* Pure helpers of the driver                                              *)
(***************************************************************************)
\* util.ServiceTypeHasNodePort
ServiceTypeHasNodePort(svc) == svc.type \in {"NodePort", "LoadBalancer"}

\* util.ValidatePort: the protocol is one of TCP, UDP, SCTP and the port is
\* in 1..65535.
ValidatePort(protocol, port) ==
    IF protocol \notin {ProtocolTCP, ProtocolUDP, ProtocolSCTP} THEN "InvalidPort"
    ELSE IF port <= 0 \/ port > 65535 THEN "InvalidPort"
    ELSE Nil

getDescription(portName, svc, nodePort) ==
    LET svcName == svc.namespace \o "/" \o svc.name
        prefix == IF nodePort THEN nodePortDescr ELSE externalPortDescr
    IN  IF portName = "" THEN prefix \o " " \o svcName
        ELSE prefix \o " " \o svcName \o ":" \o portName

\* One handlePort call: the handler and its arguments.
PortCall(op, desc, ip, port, protocol) ==
    [op |-> op, desc |-> desc, ip |-> ip, port |-> port, protocol |-> protocol]

\* Mutant of PortCalls: the external IP claims use the node port.
PortCallsExternalOnNodePort(svc, svcPort, op) ==
    (IF ServiceTypeHasNodePort(svc)
     THEN <<PortCall(op, getDescription(svcPort.name, svc, TRUE), "",
                     svcPort.nodePort, svcPort.protocol)>>
     ELSE <<>>)
    \o [i \in 1..Len(svc.externalIPs) |->
          PortCall(op, getDescription(svcPort.name, svc, FALSE),
                   svc.externalIPs[i], svcPort.nodePort, svcPort.protocol)]

\* The handlePort calls handleService makes for one svcPort (the loop body).
PortCalls(svc, svcPort, op) ==
    (IF ServiceTypeHasNodePort(svc)
     THEN <<PortCall(op, getDescription(svcPort.name, svc, TRUE), "",
                     svcPort.nodePort, svcPort.protocol)>>
     ELSE <<>>)
    \o [i \in 1..Len(svc.externalIPs) |->
          PortCall(op, getDescription(svcPort.name, svc, FALSE),
                   svc.externalIPs[i], svcPort.port, svcPort.protocol)]

RECURSIVE PortsLoop(_, _, _)
PortsLoop(svc, ports, op) ==
    IF ports = <<>> THEN <<>>
    ELSE PortCalls(svc, Head(ports), op) \o PortsLoop(svc, Tail(ports), op)

\* handleService: the handlePort calls it makes, in order.
handleService(svc, op) ==
    IF ~ServiceTypeHasNodePort(svc) /\ Len(svc.externalIPs) = 0 THEN <<>>
    ELSE PortsLoop(svc, svc.ports, op)

\* Mutant of addServicePortClaim: the claims are closed and opened again.
addServicePortClaimReplaces(svc) ==
    handleService(svc, "close") \o handleService(svc, "open")

addServicePortClaim(svc) == handleService(svc, "open")

deleteServicePortClaim(svc) == handleService(svc, "close")

\* Mutant of SpecsDeepEqual: the whole objects are compared.
SpecsDeepEqualWhole(oldSvc, newSvc) == oldSvc = newSvc

\* reflect.DeepEqual on Spec.ExternalIPs and on Spec.Ports: element by
\* element, in order.
SpecsDeepEqual(oldSvc, newSvc) ==
    oldSvc.externalIPs = newSvc.externalIPs /\ oldSvc.ports = newSvc.ports

\* Mutant of updateServicePortClaim: the new claims are opened before the
\* old ones are closed.
updateServicePortClaimOpensFirst(oldSvc, newSvc) ==
    IF SpecsDeepEqual(oldSvc, newSvc) THEN <<>>
    ELSE addServicePortClaim(newSvc) \o deleteServicePortClaim(oldSvc)

updateServicePortClaim(oldSvc, newSvc) ==
    IF SpecsDeepEqual(oldSvc, newSvc) THEN <<>>
    ELSE deleteServicePortClaim(oldSvc) \o addServicePortClaim(newSvc)

(***************************************************************************)
(* Pure helpers of the ledger                                              *)
(***************************************************************************)
\* Mutant of LocalPort: the description is not part of the key.
LocalPortUndescribed(desc, ip, port, protocol) ==
    [Description |-> "", IP |-> ip, Port |-> port, Protocol |-> protocol]

\* utilnet.LocalPort as built by NewLocalPort(desc, ip, "", port, protocol).
LocalPort(desc, ip, port, protocol) ==
    [Description |-> desc, IP |-> ip, Port |-> port, Protocol |-> protocol]

\* utilnet.NewLocalPort fails for a protocol other than TCP and UDP.  (It
\* also fails for an unparsable IP; only "" and keys of localAddrSet reach
\* it.)
NewLocalPortFails(ip, protocol) == protocol \notin {ProtocolTCP, ProtocolUDP}

\* Mutant of NotLocal: every address passes for a local one.
NotLocalNever(ip) == FALSE

\* ip != "" and ip is not a key of localAddrSet.
NotLocal(ip) == ip # "" /\ ip \notin localAddrSet

\* Mutant of openPrologue: an SCTP claim is opened like a TCP or UDP claim.
openPrologueSctpOpens(c) ==
    IF c.ip # "" /\ c.ip \notin localAddrSet THEN Nil
    ELSE IF c.protocol \in {ProtocolTCP, ProtocolUDP, ProtocolSCTP} THEN "lock"
    ELSE "UnsupportedProtocol"

\* open up to the Lock(): "nil" (return nil), "lock" (go on), or the error.
openPrologue(c) ==
    IF NotLocal(c.ip) THEN Nil
    ELSE IF c.protocol \in {ProtocolTCP, ProtocolUDP}
         THEN (IF NewLocalPortFails(c.ip, c.protocol) THEN "UnsupportedProtocol"
               ELSE "lock")
    ELSE IF c.protocol = ProtocolSCTP THEN Nil
    ELSE "UnsupportedProtocol"

\* close up to the Lock().
closePrologue(c) ==
    IF c.protocol # ProtocolTCP /\ c.protocol # ProtocolUDP THEN Nil
    ELSE IF NotLocal(c.ip) THEN Nil
    ELSE IF NewLocalPortFails(c.ip, c.protocol) THEN "LocalPortCreation"
    ELSE "lock"

\* Mutant of Exists: the lookup never finds the entry.
ExistsNever(m, lp) == FALSE

\* _, exists := p.portsMap[*localPort]
Exists(m, lp) == lp \in DOMAIN m

\* Mutant of MapInsert: the insert replaces the map.
MapInsertClobber(m, lp, h) == [k \in {lp} |-> h]

\* p.portsMap[*localPort] = closeable
MapInsert(m, lp, h) == [k \in DOMAIN m \cup {lp} |-> IF k = lp THEN h ELSE m[k]]

\* Mutant of MapDelete: the entry is not deleted.
MapDeleteKeeps(m, lp) == m

\* delete(p.portsMap, *localPort)
MapDelete(m, lp) == [k \in DOMAIN m \ {lp} |-> m[k]]

\* An error of the batch: its kind and the handlePort call it came from.
Err(kind, c) == [kind |-> kind, call |-> c]

\* emitPortClaimEvent: a warning event on the Service, naming the port.
PortClaimEvent(svc, port) ==
    [namespace |-> svc.namespace, name |-> svc.name, port |-> port]

(***************************************************************************)
(* The OS side                                                             *)
(***************************************************************************)
\* Two listening sockets contend when protocol and port agree and the
\* addresses agree or one of them is the wildcard.
Contend(a, b) ==
    /\ a.Protocol = b.Protocol
    /\ a.Port = b.Port
    /\ (a.IP = b.IP \/ a.IP = "" \/ b.IP = "")

\* The LocalPort is free: this process holds no bound socket contending
\* with it.  (Another process may still hold it: an open may always fail.)
PortFree(lp) ==
    \A h \in 1..Len(sockets) : sockets[h].bound => ~Contend(sockets[h].lp, lp)

Socket(lp, bound, closed) == [lp |-> lp, bound |-> bound, closed |-> closed]

(***************************************************************************)
(* Initial state: newPortClaimWatcher, no handler running                  *)
(***************************************************************************)
Init ==
    /\ portsMap = [lp \in {} |-> 0]
    /\ lock = 0
    /\ sockets = << >>
    /\ pc = [t \in Threads |-> "idle"]
    /\ ev = [t \in Threads |-> None]
    /\ queue = [t \in Threads |-> << >>]
    /\ cur = [t \in Threads |-> None]
    /\ calls = [t \in Threads |-> << >>]
    /\ errors = [t \in Threads |-> << >>]
    /\ osCalls = [t \in Threads |-> << >>]
    /\ events = [t \in Threads |-> << >>]
    /\ failedClose = {}
    /\ lastOpen = None
    /\ store = [t \in Threads |-> None]

(***************************************************************************)
(* The driver: one handler per Service event                               *)
(***************************************************************************)
Event(kind, old, svc) == [kind |-> kind, old |-> old, svc |-> svc]

\* A handler starts: its claims are derived and its result list is empty.
Begin(t, e, q) ==
    /\ pc[t] = "idle"
    /\ pc' = [pc EXCEPT ![t] = "batch"]
    /\ ev' = [ev EXCEPT ![t] = e]
    /\ queue' = [queue EXCEPT ![t] = q]
    /\ calls' = [calls EXCEPT ![t] = << >>]
    /\ errors' = [errors EXCEPT ![t] = << >>]
    /\ osCalls' = [osCalls EXCEPT ![t] = << >>]
    /\ events' = [events EXCEPT ![t] = << >>]
    /\ UNCHANGED <<portsMap, lock, sockets, cur, failedClose, lastOpen>>

\* AddFunc: addServicePortClaim(svc)
Added(t, svc) ==
    /\ Begin(t, Event("Added", None, svc), addServicePortClaim(svc))
    /\ store' = [store EXCEPT ![t] = svc]

\* AddFunc called again for the object the watch layer holds (a resync
\* re-delivers the Add); the event records that it was delivered before.
Resync(t) ==
    /\ store[t] # None
    /\ Begin(t, Event("Added", store[t], store[t]),
             addServicePortClaim(store[t]))
    /\ UNCHANGED store

\* UpdateFunc: updateServicePortClaim(oldSvc, newSvc)
Updated(t, oldSvc, newSvc) ==
    /\ Begin(t, Event("Updated", oldSvc, newSvc),
             updateServicePortClaim(oldSvc, newSvc))
    /\ store' = [store EXCEPT ![t] = newSvc]

\* DeleteFunc: deleteServicePortClaim(svc)
Deleted(t, svc) ==
    /\ Begin(t, Event("Deleted", None, svc), deleteServicePortClaim(svc))
    /\ store' = [store EXCEPT ![t] = None]

\* Mutant of HandlePort: the handler is called without the validation.
HandlePortUnvalidated(t) ==
    /\ pc[t] = "batch"
    /\ queue[t] # << >>
    /\ LET c == Head(queue[t])
           r == IF c.op = "open" THEN openPrologue(c) ELSE closePrologue(c)
       IN  /\ queue' = [queue EXCEPT ![t] = Tail(@)]
           /\ calls' = [calls EXCEPT ![t] = Append(@, c)]
           /\ errors' = [errors EXCEPT ![t] =
                           IF r \in {Nil, "lock"} THEN @ ELSE Append(@, Err(r, c))]
           /\ events' = [events EXCEPT ![t] =
                           IF r = "UnsupportedProtocol"
                           THEN Append(@, PortClaimEvent(ev[t].svc, c.port))
                           ELSE @]
           /\ pc' = [pc EXCEPT ![t] = IF r = "lock" THEN "lock" ELSE "batch"]
           /\ cur' = [cur EXCEPT ![t] =
                        IF r = "lock"
                        THEN [op |-> c.op, call |-> c,
                              lp |-> LocalPort(c.desc, c.ip, c.port, c.protocol)]
                        ELSE None]
    /\ UNCHANGED <<portsMap, lock, sockets, ev, osCalls, failedClose, lastOpen,
                   store>>

\* handlePort for the next claim of the batch: ValidatePort, then the
\* handler (open or close) up to its Lock() call.
HandlePort(t) ==
    /\ pc[t] = "batch"
    /\ queue[t] # << >>
    /\ LET c == Head(queue[t])
           r == IF ValidatePort(c.protocol, c.port) # Nil THEN "InvalidPort"
                ELSE IF c.op = "open" THEN openPrologue(c)
                ELSE closePrologue(c)
       IN  /\ queue' = [queue EXCEPT ![t] = Tail(@)]
           /\ calls' = [calls EXCEPT ![t] =
                          IF r = "InvalidPort" THEN @ ELSE Append(@, c)]
           /\ errors' = [errors EXCEPT ![t] =
                           IF r \in {Nil, "lock"} THEN @ ELSE Append(@, Err(r, c))]
           /\ events' = [events EXCEPT ![t] =
                           IF r = "UnsupportedProtocol"
                           THEN Append(@, PortClaimEvent(ev[t].svc, c.port))
                           ELSE @]
           /\ pc' = [pc EXCEPT ![t] = IF r = "lock" THEN "lock" ELSE "batch"]
           /\ cur' = [cur EXCEPT ![t] =
                        IF r = "lock"
                        THEN [op |-> c.op, call |-> c,
                              lp |-> LocalPort(c.desc, c.ip, c.port, c.protocol)]
                        ELSE None]
    /\ UNCHANGED <<portsMap, lock, sockets, ev, osCalls, failedClose, lastOpen,
                   store>>

\* The batch is over: the handler returns its errors to the callback.
Return(t) ==
    /\ pc[t] = "batch"
    /\ queue[t] = << >>
    /\ pc' = [pc EXCEPT ![t] = "idle"]
    /\ UNCHANGED <<portsMap, lock, sockets, ev, queue, cur, calls, errors,
                   osCalls, events, failedClose, lastOpen, store>>

\* portHandler.open / portHandler.close called directly with the arguments
\* of c on behalf of svc: the call runs up to its Lock(), or returns before.
Call(t, svc, c) ==
    /\ pc[t] = "idle"
    /\ LET r == IF c.op = "open" THEN openPrologue(c) ELSE closePrologue(c)
       IN  /\ ev' = [ev EXCEPT ![t] = Event("Call", None, svc)]
           /\ queue' = [queue EXCEPT ![t] = << >>]
           /\ calls' = [calls EXCEPT ![t] = <<c>>]
           /\ errors' = [errors EXCEPT ![t] =
                           IF r \in {Nil, "lock"} THEN << >> ELSE <<Err(r, c)>>]
           /\ osCalls' = [osCalls EXCEPT ![t] = << >>]
           /\ events' = [events EXCEPT ![t] =
                           IF r = "UnsupportedProtocol"
                           THEN <<PortClaimEvent(svc, c.port)>>
                           ELSE << >>]
           /\ pc' = [pc EXCEPT ![t] = IF r = "lock" THEN "lock" ELSE "batch"]
           /\ cur' = [cur EXCEPT ![t] =
                        IF r = "lock"
                        THEN [op |-> c.op, call |-> c,
                              lp |-> LocalPort(c.desc, c.ip, c.port, c.protocol)]
                        ELSE None]
    /\ UNCHANGED <<portsMap, lock, sockets, failedClose, lastOpen, store>>

(***************************************************************************)
(* The ledger: open and close from Lock() to the deferred Unlock()         *)
(***************************************************************************)
\* Mutant of Lock: the lock is taken without waiting for its holder.
LockNoWait(t) ==
    /\ pc[t] = "lock"
    /\ lock' = t
    /\ pc' = [pc EXCEPT ![t] = "critical"]
    /\ UNCHANGED <<portsMap, sockets, ev, queue, cur, calls, errors, osCalls,
                   events, failedClose, lastOpen, store>>

\* p.activeSocketsLock.Lock()
Lock(t) ==
    /\ pc[t] = "lock"
    /\ lock = 0
    /\ lock' = t
    /\ pc' = [pc EXCEPT ![t] = "critical"]
    /\ UNCHANGED <<portsMap, sockets, ev, queue, cur, calls, errors, osCalls,
                   events, failedClose, lastOpen, store>>

\* Mutant of Leave: an error ends the batch.
LeaveShortCircuit(t, kind) ==
    /\ lock' = 0
    /\ pc' = [pc EXCEPT ![t] = "batch"]
    /\ cur' = [cur EXCEPT ![t] = None]
    /\ errors' = [errors EXCEPT ![t] =
                    IF kind = Nil THEN @ ELSE Append(@, Err(kind, cur[t].call))]
    /\ queue' = [queue EXCEPT ![t] = IF kind = Nil THEN @ ELSE << >>]
    /\ UNCHANGED <<ev, calls, store>>

\* The return of open/close: the deferred Unlock(), and handlePort hands
\* the error (if any) to handleService, which appends it.
Leave(t, kind) ==
    /\ lock' = 0
    /\ pc' = [pc EXCEPT ![t] = "batch"]
    /\ cur' = [cur EXCEPT ![t] = None]
    /\ errors' = [errors EXCEPT ![t] =
                    IF kind = Nil THEN @ ELSE Append(@, Err(kind, cur[t].call))]
    /\ UNCHANGED <<ev, queue, calls, store>>

OsCall(op, lp, h, ok) == [op |-> op, lp |-> lp, h |-> h, ok |-> ok]

InCritical(t, op) == pc[t] = "critical" /\ lock = t /\ cur[t].op = op

\* open: the LocalPort is already in the map.
OpenDuplicate(t) ==
    /\ InCritical(t, "open")
    /\ Exists(portsMap, cur[t].lp)
    /\ Leave(t, "DuplicateClaim")
    /\ UNCHANGED <<portsMap, sockets, osCalls, events, failedClose, lastOpen>>

\* Mutant of OpenOk: the Closeable is not recorded in the map.
OpenOkNotRecorded(t) ==
    /\ InCritical(t, "open")
    /\ ~Exists(portsMap, cur[t].lp)
    /\ Len(sockets) < MaxHandles
    /\ PortFree(cur[t].lp)
    /\ sockets' = Append(sockets, Socket(cur[t].lp, TRUE, 0))
    /\ osCalls' = [osCalls EXCEPT ![t] =
                     Append(@, OsCall("open", cur[t].lp, Len(sockets) + 1, TRUE))]
    /\ Leave(t, Nil)
    /\ UNCHANGED <<portsMap, lastOpen, events, failedClose>>

\* open: portOpener.OpenLocalPort succeeds and its Closeable is recorded.
OpenOk(t) ==
    /\ InCritical(t, "open")
    /\ ~Exists(portsMap, cur[t].lp)
    /\ Len(sockets) < MaxHandles
    /\ PortFree(cur[t].lp)
    /\ LET h == Len(sockets) + 1
       IN  /\ sockets' = Append(sockets, Socket(cur[t].lp, TRUE, 0))
           /\ osCalls' = [osCalls EXCEPT ![t] =
                            Append(@, OsCall("open", cur[t].lp, h, TRUE))]
           /\ portsMap' = MapInsert(portsMap, cur[t].lp, h)
           /\ lastOpen' = [kind |-> "Open", lp |-> cur[t].lp, before |-> portsMap]
    /\ Leave(t, Nil)
    /\ UNCHANGED <<events, failedClose>>

\* Mutant of OpenFail: no event is emitted.
OpenFailSilent(t) ==
    /\ InCritical(t, "open")
    /\ ~Exists(portsMap, cur[t].lp)
    /\ osCalls' = [osCalls EXCEPT ![t] =
                     Append(@, OsCall("open", cur[t].lp, 0, FALSE))]
    /\ Leave(t, "ReservationUnavailable")
    /\ UNCHANGED <<portsMap, sockets, events, failedClose, lastOpen>>

\* open: portOpener.OpenLocalPort fails; the event is emitted.
OpenFail(t) ==
    /\ InCritical(t, "open")
    /\ ~Exists(portsMap, cur[t].lp)
    /\ osCalls' = [osCalls EXCEPT ![t] =
                     Append(@, OsCall("open", cur[t].lp, 0, FALSE))]
    /\ events' = [events EXCEPT ![t] =
                    Append(@, PortClaimEvent(ev[t].svc, cur[t].lp.Port))]
    /\ Leave(t, "ReservationUnavailable")
    /\ UNCHANGED <<portsMap, sockets, failedClose, lastOpen>>

\* Mutant of CloseUntracked: the close of an absent entry reports success.
CloseUntrackedSilent(t) ==
    /\ InCritical(t, "close")
    /\ ~Exists(portsMap, cur[t].lp)
    /\ Leave(t, Nil)
    /\ UNCHANGED <<portsMap, sockets, osCalls, events, failedClose, lastOpen>>

\* close: the LocalPort is not in the map.
CloseUntracked(t) ==
    /\ InCritical(t, "close")
    /\ ~Exists(portsMap, cur[t].lp)
    /\ Leave(t, "UntrackedRelease")
    /\ UNCHANGED <<portsMap, sockets, osCalls, events, failedClose, lastOpen>>

\* close: Close() returns nil; the entry is deleted.
CloseOk(t) ==
    /\ InCritical(t, "close")
    /\ Exists(portsMap, cur[t].lp)
    /\ LET h == portsMap[cur[t].lp]
       IN  /\ sockets' = [sockets EXCEPT ![h] =
                            Socket(None, FALSE, @.closed + 1)]
           /\ osCalls' = [osCalls EXCEPT ![t] =
                            Append(@, OsCall("close", cur[t].lp, h, TRUE))]
    /\ portsMap' = MapDelete(portsMap, cur[t].lp)
    /\ failedClose' = failedClose \ {cur[t].lp}
    /\ lastOpen' = IF lastOpen.kind = "Open" /\ lastOpen.lp = cur[t].lp
                   THEN [lastOpen EXCEPT !.kind = "RoundTrip"]
                   ELSE None
    /\ Leave(t, Nil)
    /\ UNCHANGED events

\* Mutant of CloseFail: the entry is deleted although Close() failed.
CloseFailDrops(t) ==
    /\ InCritical(t, "close")
    /\ Exists(portsMap, cur[t].lp)
    /\ LET h == portsMap[cur[t].lp]
       IN  /\ \E b \in {sockets[h].bound, FALSE} :
                sockets' = [sockets EXCEPT ![h] = Socket(@.lp, b, @.closed)]
           /\ osCalls' = [osCalls EXCEPT ![t] =
                            Append(@, OsCall("close", cur[t].lp, h, FALSE))]
    /\ failedClose' = failedClose \cup {cur[t].lp}
    /\ portsMap' = MapDelete(portsMap, cur[t].lp)
    /\ Leave(t, "ReleaseFailure")
    /\ UNCHANGED <<events, lastOpen>>

\* close: Close() returns an error; the entry stays.  The socket may or may
\* not have been released.
CloseFail(t) ==
    /\ InCritical(t, "close")
    /\ Exists(portsMap, cur[t].lp)
    /\ LET h == portsMap[cur[t].lp]
       IN  /\ \E b \in {sockets[h].bound, FALSE} :
                sockets' = [sockets EXCEPT ![h] = Socket(@.lp, b, @.closed)]
           /\ osCalls' = [osCalls EXCEPT ![t] =
                            Append(@, OsCall("close", cur[t].lp, h, FALSE))]
    /\ failedClose' = failedClose \cup {cur[t].lp}
    /\ Leave(t, "ReleaseFailure")
    /\ UNCHANGED <<portsMap, events, lastOpen>>

\* open: portOpener.OpenLocalPort fails because a socket of this process is
\* bound to the address, port and protocol.
OpenFailBound(t) ==
    /\ InCritical(t, "open")
    /\ ~PortFree(cur[t].lp)
    /\ OpenFail(t)

Ledger(t) ==
    \/ HandlePort(t)
    \/ Lock(t)
    \/ OpenDuplicate(t)
    \/ OpenOk(t)
    \/ OpenFail(t)
    \/ CloseUntracked(t)
    \/ CloseOk(t)
    \/ CloseFail(t)
    \/ Return(t)

(***************************************************************************)
(* Specifications                                                          *)
(***************************************************************************)
\* Service objects of the concurrent specification: svcA is a NodePort
\* Service or a ClusterIP Service with a local external IP; svcB is a
\* NodePort Service with the same node port as svcA.
ConcServices(t) ==
    IF t = 1
    THEN {Service("ns1", SvcName(t), "NodePort", <<pWeb>>, << >>),
          Service("ns1", SvcName(t), "ClusterIP", <<pWebNoNodePort>>, <<LocalIP>>)}
    ELSE {Service("ns1", SvcName(t), "NodePort", <<pWeb>>, << >>)}

\* Handlers of two distinct Services run concurrently; Add and Delete events
\* arrive in any order (a resync re-delivers an Add).
Next ==
    \E t \in Threads :
        \/ \E svc \in ConcServices(t) : Added(t, svc)
        \/ \E svc \in ConcServices(t) : Deleted(t, svc)
        \/ Ledger(t)

Spec == Init /\ [][Next]_vars

(***************************************************************************)
(* One Service handled alone, its events in the watch layer's order:       *)
(* Added, then Updated(current, new) any number of times, then Deleted.    *)
(***************************************************************************)
\* The ports of a Service of a type without node ports, as the API server
\* stores them for a ClusterIP Service.
ClearNodePorts(ports) ==
    [i \in 1..Len(ports) |-> [ports[i] EXCEPT !.nodePort = 0]]

\* Service objects of the driver specification: a ClusterIP Service, and a
\* LoadBalancer Service with its node port allocated (pWeb) or not (pDns).
DriverServices ==
    {Service("ns1", SvcName(1), "ClusterIP", ClearNodePorts(ports), ips) :
        ports \in {<<pWeb>>, <<pDns>>}, ips \in {<< >>, <<LocalIP>>}}
    \cup
    {Service("ns1", SvcName(1), "LoadBalancer", ports, ips) :
        ports \in {<<pWeb>>, <<pDns>>}, ips \in {<< >>, <<LocalIP>>}}

\* Service objects of the reliable-OS specification.  An ExternalName
\* Service may carry the node ports it had as a NodePort Service.
LifePortLists == {<<pWeb>>, <<pWeb, pDns>>, <<pDns, pWeb>>}

LifeIPLists == {<< >>, <<LocalIP>>, <<LocalIP, LocalIP>>, <<RemoteIP, LocalIP>>}

LifeServices ==
    {Service("ns1", SvcName(1), "ClusterIP", ClearNodePorts(ports), ips) :
        ports \in LifePortLists, ips \in LifeIPLists}
    \cup
    {Service("ns1", SvcName(1), type, ports, ips) :
        type \in {"ExternalName", "NodePort"},
        ports \in LifePortLists, ips \in LifeIPLists}

Lifecycle(t, services) ==
    \/ store[t] = None /\ \E svc \in services : Added(t, svc)
    \/ store[t] # None /\ \E svc \in services : Updated(t, store[t], svc)
    \/ store[t] # None /\ Deleted(t, store[t])

NextDriver == Lifecycle(1, DriverServices) \/ Ledger(1)

SpecDriver == Init /\ [][NextDriver]_vars

\* The same, on an OS whose open and close primitives never fail.
LedgerReliable(t) ==
    \/ HandlePort(t)
    \/ Lock(t)
    \/ OpenDuplicate(t)
    \/ OpenOk(t)
    \/ CloseUntracked(t)
    \/ CloseOk(t)
    \/ Return(t)

NextReliable == Lifecycle(1, LifeServices) \/ LedgerReliable(1)

SpecReliable == Init /\ [][NextReliable]_vars

(***************************************************************************)
(* The ledger alone: two threads call open and close directly, with any    *)
(* arguments, on an OS whose primitives may fail.                          *)
(***************************************************************************)
\* Arguments of the direct calls: one TCP claim on all interfaces, SCTP
\* claims (port 0 included), claims on an address that is not local, and a
\* claim of an unknown protocol on a local address.
LedgerClaims ==
    {<<"nodePort for ns1/svcA", "", 30080, ProtocolTCP>>,
     <<"nodePort for ns1/svcA:sctp", "", 30899, ProtocolSCTP>>,
     <<"nodePort for ns1/svcA:sctp", "", 0, ProtocolSCTP>>,
     <<"externalIP for ns1/svcA:sctp", LocalIP, 9899, ProtocolSCTP>>,
     <<"externalIP for ns1/svcA", RemoteIP, 30080, ProtocolTCP>>,
     <<"externalIP for ns1/svcA", RemoteIP, 9899, ProtocolSCTP>>,
     <<"externalIP for ns1/svcA", RemoteIP, 8080, ProtocolUnknown>>,
     <<"externalIP for ns1/svcA", LocalIP, 8080, ProtocolUnknown>>}

LedgerCalls ==
    {PortCall(op, a[1], a[2], a[3], a[4]) : op \in {"open", "close"},
                                           a \in LedgerClaims}

LedgerService(t) == Service("ns1", SvcName(t), "NodePort", <<pWeb>>, << >>)

NextLedger ==
    \E t \in Threads :
        \/ \E c \in LedgerCalls : Call(t, LedgerService(t), c)
        \/ Lock(t)
        \/ OpenDuplicate(t)
        \/ OpenOk(t)
        \/ OpenFail(t)
        \/ CloseUntracked(t)
        \/ CloseOk(t)
        \/ CloseFail(t)
        \/ Return(t)

SpecLedger == Init /\ [][NextLedger]_vars

(***************************************************************************)
(* Two Services that claim the same external IP and port, each with its    *)
(* events in the watch layer's order, on an OS whose open fails only when  *)
(* the address, port and protocol are bound.                               *)
(***************************************************************************)
\* svcA keeps its claim on LocalIP:8080/TCP while an external IP that is not
\* local comes and goes; svcB claims LocalIP:8080/TCP too.
RaceServices(t) ==
    IF t = 1
    THEN {Service("ns1", SvcName(t), "ClusterIP", <<pWebNoNodePort>>, ips) :
             ips \in {<<LocalIP>>, <<LocalIP, RemoteIP>>}}
    ELSE {Service("ns1", SvcName(t), "ClusterIP", <<pWebNoNodePort>>, <<LocalIP>>)}

NextRace ==
    \E t \in Threads :
        \/ Lifecycle(t, RaceServices(t))
        \/ HandlePort(t)
        \/ Lock(t)
        \/ OpenDuplicate(t)
        \/ OpenOk(t)
        \/ OpenFailBound(t)
        \/ CloseUntracked(t)
        \/ CloseOk(t)
        \/ CloseFail(t)
        \/ Return(t)

SpecRace == Init /\ [][NextRace]_vars

(***************************************************************************)
(* One Service whose Add is re-delivered any number of times between its   *)
(* Add and its Delete, on an OS whose primitives may fail.                 *)
(***************************************************************************)
\* A LoadBalancer Service with a node port claim and an external IP claim,
\* the same with a second declared port whose node port is not allocated,
\* and a NodePort Service with an external IP that is not local.
ResyncServices ==
    {Service("ns1", SvcName(1), "LoadBalancer", <<pWeb>>, <<LocalIP>>),
     Service("ns1", SvcName(1), "LoadBalancer", <<pWeb, pDns>>, <<LocalIP>>),
     Service("ns1", SvcName(1), "NodePort", <<pWeb>>, <<RemoteIP>>)}

NextResync ==
    \/ store[1] = None /\ \E svc \in ResyncServices : Added(1, svc)
    \/ Resync(1)
    \/ store[1] # None /\ Deleted(1, store[1])
    \/ Ledger(1)

SpecResync == Init /\ [][NextResync]_vars

\* The same with open calls only, on the ledger as constructed.
OpenCalls == {c \in LedgerCalls : c.op = "open"}

NextOpens ==
    \E t \in Threads :
        \/ \E c \in OpenCalls : Call(t, LedgerService(t), c)
        \/ Lock(t)
        \/ OpenDuplicate(t)
        \/ OpenOk(t)
        \/ OpenFail(t)
        \/ Return(t)

SpecOpens == Init /\ [][NextOpens]_vars

(***************************************************************************)
(* Properties                                                              *)
(***************************************************************************)
\* Thread t leaves the critical section of an open / a close in this step.
LeavesCritical(t, op) ==
    pc[t] = "critical" /\ cur[t].op = op /\ pc'[t] # "critical"

\* The OS primitive thread t invoked in this step, if it invoked one.
OsInvoked(t) == Len(osCalls'[t]) = Len(osCalls[t]) + 1

OsResult(t) == osCalls'[t][Len(osCalls'[t])]

Failed(t, kind) == errors'[t] = Append(errors[t], Err(kind, cur[t].call))

LastError(t) == errors[t][Len(errors[t])]

CallLocalPort(c) == LocalPort(c.desc, c.ip, c.port, c.protocol)

\* C1: every LocalPort in the map has exactly one handle, which the OS
\* returned to an open of that LocalPort, which no other entry shares and
\* which has not been closed successfully; it is the only handle opened for
\* that LocalPort and not yet closed successfully; and no handle is closed
\* successfully twice.
C1_OneLiveReservation ==
    /\ \A lp \in DOMAIN portsMap :
          LET h == portsMap[lp]
          IN  /\ h \in 1..Len(sockets)
              /\ sockets[h].lp = lp
              /\ sockets[h].closed = 0
              /\ \A lp2 \in DOMAIN portsMap : portsMap[lp2] = h => lp2 = lp
              /\ {g \in 1..Len(sockets) : sockets[g].lp = lp} = {h}
    /\ \A h \in 1..Len(sockets) : sockets[h].closed <= 1

\* A LocalPort closed successfully and opened again is in the map.
C1_Witness ==
    \E lp \in DOMAIN portsMap :
        /\ portsMap[lp] > 1
        /\ \E h \in 1..Len(sockets) : sockets[h].closed = 1

\* C2: an open that finds its LocalPort in the map fails with
\* DuplicateClaim, invokes no OS primitive and leaves the map and the
\* sockets as they are.
C2_DuplicateOpen ==
    [][\A t \in Threads :
          (LeavesCritical(t, "open") /\ cur[t].lp \in DOMAIN portsMap)
          => /\ Failed(t, "DuplicateClaim")
             /\ osCalls' = osCalls
             /\ events' = events
             /\ portsMap' = portsMap
             /\ sockets' = sockets]_vars

\* An open has been rejected as a duplicate while the entry is held.
C2_Witness ==
    \E t \in Threads :
        /\ errors[t] # << >>
        /\ LastError(t).kind = "DuplicateClaim"
        /\ CallLocalPort(LastError(t).call) \in DOMAIN portsMap

\* C3: a close of a valid TCP/UDP claim with an empty or local address
\* reaches the map lookup, and when its LocalPort is not in the map it fails
\* with UntrackedRelease, invokes no OS primitive and leaves the map and the
\* sockets as they are; a LocalPort no open has succeeded for is not in the
\* map.
C3_UntrackedClose ==
    [][/\ \A lp \in DOMAIN portsMap :
             \E h \in 1..Len(sockets) : sockets[h].lp = lp
       /\ \A t \in Threads :
          /\ ( /\ pc[t] = "batch"
               /\ queue[t] # << >>
               /\ queue'[t] # queue[t]
               /\ Head(queue[t]).op = "close"
               /\ Head(queue[t]).protocol \in {ProtocolTCP, ProtocolUDP}
               /\ Head(queue[t]).port \in 1..65535
               /\ Head(queue[t]).ip \in {""} \cup localAddrSet )
             => /\ pc'[t] = "lock"
                /\ cur'[t].lp = CallLocalPort(Head(queue[t]))
          /\ (LeavesCritical(t, "close") /\ cur[t].lp \notin DOMAIN portsMap)
             => /\ Failed(t, "UntrackedRelease")
                /\ osCalls' = osCalls
                /\ portsMap' = portsMap
                /\ sockets' = sockets]_vars

\* A close has failed for a LocalPort that no socket was ever opened for.
C3_Witness ==
    \E t \in Threads :
        /\ errors[t] # << >>
        /\ LastError(t).kind = "UntrackedRelease"
        /\ sockets = << >>

\* Thread t runs handlePort for its next claim in this step.
HandlesPort(t) == pc[t] = "batch" /\ queue[t] # << >> /\ queue'[t] # queue[t]

\* The next claim of thread t is a valid TCP or UDP claim.
NextIsValidTcpUdp(t) ==
    /\ Head(queue[t]).protocol \in {ProtocolTCP, ProtocolUDP}
    /\ Head(queue[t]).port \in 1..65535

\* C4: for a valid TCP/UDP claim, open and close do not fail before the map
\* lookup; an open of an absent LocalPort whose OS open succeeds returns no
\* error and adds exactly that entry; a close of that LocalPort which
\* follows with no other change of the map in between and whose OS close
\* succeeds returns no error and leaves the map as it was before the open.
C4_RoundTrip ==
    [][\A t \in Threads :
          /\ (HandlesPort(t) /\ NextIsValidTcpUdp(t))
             => errors'[t] = errors[t]
          /\ ( /\ LeavesCritical(t, "open")
               /\ cur[t].lp \notin DOMAIN portsMap
               /\ OsInvoked(t)
               /\ OsResult(t).ok )
             => /\ errors'[t] = errors[t]
                /\ DOMAIN portsMap' = DOMAIN portsMap \cup {cur[t].lp}
                /\ \A k \in DOMAIN portsMap : portsMap'[k] = portsMap[k]
          /\ ( /\ LeavesCritical(t, "close")
               /\ lastOpen.kind = "Open"
               /\ lastOpen.lp = cur[t].lp
               /\ OsInvoked(t)
               /\ OsResult(t).ok )
             => /\ errors'[t] = errors[t]
                /\ portsMap' = lastOpen.before
                /\ cur[t].lp \notin DOMAIN portsMap']_vars

\* An open and the close that followed it have both succeeded, next to
\* another entry of the map.
C4_Witness ==
    /\ lastOpen.kind = "RoundTrip"
    /\ portsMap = lastOpen.before
    /\ portsMap # << >>
    /\ \E t \in Threads :
          /\ errors[t] = << >>
          /\ osCalls[t] # << >>
          /\ osCalls[t][Len(osCalls[t])] =
                OsCall("close", lastOpen.lp, osCalls[t][Len(osCalls[t])].h, TRUE)

\* C5: a close that finds its LocalPort in the map and whose OS close fails
\* returns ReleaseFailure and keeps the entry; as long as no close of that
\* LocalPort has succeeded since, every open of it is rejected as
\* DuplicateClaim without an OS call.
C5_FailedCloseKeepsEntry ==
    [][\A t \in Threads :
          /\ ( /\ LeavesCritical(t, "close")
               /\ cur[t].lp \in DOMAIN portsMap
               /\ OsInvoked(t)
               /\ ~OsResult(t).ok )
             => /\ Failed(t, "ReleaseFailure")
                /\ portsMap' = portsMap
          /\ (LeavesCritical(t, "open") /\ cur[t].lp \in failedClose)
             => /\ Failed(t, "DuplicateClaim")
                /\ osCalls' = osCalls
                /\ portsMap' = portsMap]_vars

\* An open has been rejected for a LocalPort whose close had failed.
C5_Witness ==
    \E t \in Threads :
        /\ errors[t] # << >>
        /\ LastError(t).kind = "DuplicateClaim"
        /\ CallLocalPort(LastError(t).call) \in failedClose

\* Thread t takes a step of a close call.
ClosingStep(t) ==
    \/ HandlesPort(t) /\ Head(queue[t]).op = "close"
    \/ pc[t] \in {"lock", "critical"} /\ cur[t].op = "close" /\ pc'[t] # pc[t]

\* C6: an open of an absent LocalPort whose OS open fails returns
\* ReservationUnavailable, emits exactly one event, on the Service of the
\* handler and naming the port, and leaves the map as it is; no step of a
\* close emits an event.
C6_OpenFailureEvent ==
    [][\A t \in Threads :
          /\ ( /\ LeavesCritical(t, "open")
               /\ cur[t].lp \notin DOMAIN portsMap
               /\ OsInvoked(t)
               /\ ~OsResult(t).ok )
             => /\ Failed(t, "ReservationUnavailable")
                /\ events'[t] = Append(events[t],
                                  [namespace |-> "ns1", name |-> SvcName(t),
                                   port |-> cur[t].lp.Port])
                /\ \A u \in Threads \ {t} : events'[u] = events[u]
                /\ portsMap' = portsMap
          /\ ClosingStep(t) => events' = events]_vars

\* An open has failed at the OS and its event is recorded.
C6_Witness ==
    \E t \in Threads :
        /\ errors[t] # << >>
        /\ LastError(t).kind = "ReservationUnavailable"
        /\ Len(events[t]) = 1

\* The LocalPorts of the open/close calls of thread t in its event.
CalledLocalPorts(t) == {CallLocalPort(calls[t][i]) : i \in 1..Len(calls[t])}

\* C10: a running handler can always take a step, or waits for the lock
\* while its holder can take one; when an Added handler has returned, every
\* LocalPort its OS opens succeeded for is in the map with the handle that
\* OS open returned; and when the Added handlers of both Services have
\* returned without an error, the map holds every LocalPort they called
\* open for, each with a handle of its own.
C10_ConcurrentOpens ==
    /\ \A t \in Threads :
          pc[t] # "idle" =>
             \/ ENABLED Ledger(t)
             \/ pc[t] = "lock" /\ lock \in Threads \ {t} /\ ENABLED Ledger(lock)
    /\ \A t \in Threads :
          (pc[t] = "idle" /\ ev[t].kind = "Added") =>
             \A i \in 1..Len(osCalls[t]) :
                osCalls[t][i].ok =>
                   /\ osCalls[t][i].lp \in DOMAIN portsMap
                   /\ portsMap[osCalls[t][i].lp] = osCalls[t][i].h
    /\ (\A t \in Threads :
           pc[t] = "idle" /\ ev[t].kind = "Added" /\ errors[t] = << >>) =>
          LET ids == UNION {CalledLocalPorts(t) : t \in Threads}
          IN  /\ ids \subseteq DOMAIN portsMap
              /\ Cardinality({portsMap[lp] : lp \in ids}) = Cardinality(ids)
              /\ \A t \in Threads : \A lp \in CalledLocalPorts(t) :
                    \E i \in 1..Len(osCalls[t]) :
                       osCalls[t][i] = OsCall("open", lp, portsMap[lp], TRUE)

\* Both Services' Added handlers have returned without an error, each
\* having opened a LocalPort of its own.
C10_Witness ==
    /\ \A t \in Threads :
          /\ pc[t] = "idle"
          /\ ev[t].kind = "Added"
          /\ errors[t] = << >>
          /\ Len(osCalls[t]) = 1
    /\ Cardinality(DOMAIN portsMap) = 2

\* Ports and ExternalIPs of the old and the new object of an Updated event
\* are equal, element by element and in order.
SameClaimFields(e) ==
    /\ Len(e.old.ports) = Len(e.svc.ports)
    /\ \A i \in 1..Len(e.old.ports) : e.old.ports[i] = e.svc.ports[i]
    /\ Len(e.old.externalIPs) = Len(e.svc.externalIPs)
    /\ \A i \in 1..Len(e.old.externalIPs) :
          e.old.externalIPs[i] = e.svc.externalIPs[i]

\* C7: an Updated handler whose old and new objects have equal Ports and
\* equal ExternalIPs makes no open or close call, invokes no OS primitive,
\* emits no event and returns no error.
C7_EqualUpdateNoOp ==
    \A t \in Threads :
        (ev[t].kind = "Updated" /\ SameClaimFields(ev[t]))
        => /\ pc[t] \in {"batch", "idle"}
           /\ queue[t] = << >>
           /\ calls[t] = << >>
           /\ osCalls[t] = << >>
           /\ events[t] = << >>
           /\ errors[t] = << >>

\* An Updated handler has returned on objects that differ in their type
\* only, while the map holds a reservation.
C7_Witness ==
    \E t \in Threads :
        /\ pc[t] = "idle"
        /\ ev[t].kind = "Updated"
        /\ SameClaimFields(ev[t])
        /\ ev[t].old.type # ev[t].svc.type
        /\ portsMap # << >>

\* The claims derived from a Service, in order: per declared port, the
\* node port claim (when the type has node ports) and then one claim per
\* external IP.
ClaimsPerPort(svc) ==
    (IF svc.type \in {"NodePort", "LoadBalancer"} THEN 1 ELSE 0)
    + Len(svc.externalIPs)

DerivedClaim(svc, op, k) ==
    LET n == ClaimsPerPort(svc)
        p == svc.ports[((k - 1) \div n) + 1]
        r == (k - 1) % n
        np == svc.type \in {"NodePort", "LoadBalancer"}
    IN  IF np /\ r = 0
        THEN PortCall(op, getDescription(p.name, svc, TRUE), "", p.nodePort,
                      p.protocol)
        ELSE PortCall(op, getDescription(p.name, svc, FALSE),
                      svc.externalIPs[IF np THEN r ELSE r + 1], p.port,
                      p.protocol)

DerivedClaims(svc, op) ==
    [k \in 1..(Len(svc.ports) * ClaimsPerPort(svc)) |-> DerivedClaim(svc, op, k)]

PassesValidation(c) ==
    c.protocol \in {ProtocolTCP, ProtocolUDP, ProtocolSCTP} /\ c.port \in 1..65535

\* An Updated handler has returned on objects that differ in Ports or in
\* ExternalIPs.
UpdatedReturned(t) ==
    pc[t] = "idle" /\ ev[t].kind = "Updated" /\ ~SameClaimFields(ev[t])

\* C8 as stated: the handler calls close for every claim derived from the
\* old object and then open for every claim derived from the new one.
C8_ClosesAllThenOpensAll ==
    \A t \in Threads :
        UpdatedReturned(t) =>
           calls[t] = DerivedClaims(ev[t].old, "close")
                      \o DerivedClaims(ev[t].svc, "open")

\* C8, amended: the handler calls close for every claim derived from the
\* old object that passes the port validation and then open for every claim
\* derived from the new object that passes it, all closes before all opens,
\* claims common to both included.
C8_ClosesValidThenOpensValid ==
    \A t \in Threads :
        UpdatedReturned(t) =>
           calls[t] = SelectSeq(DerivedClaims(ev[t].old, "close"), PassesValidation)
                      \o SelectSeq(DerivedClaims(ev[t].svc, "open"), PassesValidation)

\* An Updated handler has closed and reopened a LocalPort that both objects
\* claim.
C8_Witness ==
    \E t \in Threads :
        /\ UpdatedReturned(t)
        /\ \E i, j \in 1..Len(osCalls[t]) :
              /\ i < j
              /\ osCalls[t][i].op = "close" /\ osCalls[t][i].ok
              /\ osCalls[t][j].op = "open" /\ osCalls[t][j].ok
              /\ osCalls[t][i].lp = osCalls[t][j].lp

\* The descriptions of the claims of a Service.
PortNames == {"", "dns", "sctp"}

DescriptionsOf(svc) ==
    {getDescription(n, svc, b) : n \in PortNames, b \in BOOLEAN}

\* C9: on an OS whose opens and closes all succeed, once the Deleted
\* handler of a Service handled alone (Added, Updated any number of times,
\* then Deleted) has returned, the map holds no entry of that Service.
C9_NothingHeldAfterDelete ==
    \A t \in Threads :
        (pc[t] = "idle" /\ ev[t].kind = "Deleted")
        => \A lp \in DOMAIN portsMap :
              lp.Description \notin DescriptionsOf(ev[t].svc)

\* C11: a thread is between Lock() and the deferred Unlock() of an open or
\* a close only while it holds the lock, so at most one thread is there at
\* a time; the lock is held only by such a thread; and every step that
\* looks up or changes the map, changes a socket or invokes an OS primitive
\* is a step of the lock holder inside its critical section.
C11_LockHeld ==
    /\ [](\A t \in Threads : pc[t] = "critical" => lock = t)
    /\ [](lock # 0 => lock \in Threads /\ pc[lock] = "critical")
    /\ [][( \/ portsMap' # portsMap
            \/ sockets' # sockets
            \/ \E t \in Threads : OsInvoked(t)
            \/ \E t \in Threads : pc[t] = "critical" /\ pc'[t] # "critical" )
          => \E t \in Threads :
                /\ lock = t
                /\ pc[t] = "critical"
                /\ pc'[t] = "batch"
                /\ lock' = 0
                /\ \A u \in Threads \ {t} : pc'[u] = pc[u]]_vars

\* One thread is inside a critical section while the other waits at Lock(),
\* with a socket already opened.
C11_Witness ==
    \E t, u \in Threads :
        /\ pc[t] = "critical"
        /\ lock = t
        /\ pc[u] = "lock"
        /\ sockets # << >>

\* Thread t starts a direct call of open or close in this step.
Calls(t) == pc[t] = "idle" /\ pc'[t] # "idle" /\ ev'[t].kind = "Call"

\* The call returns nil before the lock and leaves everything as it is.
ReturnsNilUntouched(t) ==
    /\ pc'[t] = "batch"
    /\ cur'[t] = None
    /\ errors'[t] = << >>
    /\ osCalls'[t] = << >>
    /\ events'[t] = << >>
    /\ portsMap' = portsMap
    /\ sockets' = sockets
    /\ lock' = lock

\* C12: an open or a close of an SCTP claim, whatever its port, returns nil
\* without taking the lock, invokes no OS primitive, emits no event and
\* leaves the map and the sockets as they are; no entry of the map and no
\* socket is an SCTP one.
C12_SctpNoOp ==
    /\ [](\A lp \in DOMAIN portsMap : lp.Protocol # ProtocolSCTP)
    /\ [](\A h \in 1..Len(sockets) :
             sockets[h].lp # None => sockets[h].lp.Protocol # ProtocolSCTP)
    /\ [][\A t \in Threads :
             (Calls(t) /\ calls'[t][1].protocol = ProtocolSCTP)
             => ReturnsNilUntouched(t)]_vars

\* Opens of SCTP claims, one of them with port 0, have returned nil on both
\* threads while the map holds an entry.
C12_Witness ==
    /\ \A t \in Threads :
          /\ pc[t] = "idle"
          /\ ev[t].kind = "Call"
          /\ calls[t][1].op = "open"
          /\ calls[t][1].protocol = ProtocolSCTP
          /\ errors[t] = << >>
    /\ calls[1][1].port = 0
    /\ calls[2][1].port # 0
    /\ portsMap # << >>

\* C13: an open or a close of a claim whose address is neither empty nor a
\* local one, whatever its protocol and whatever the map holds, returns nil
\* without taking the lock, invokes no OS primitive, emits no event and
\* leaves the map and the sockets as they are.
C13_NotLocalNoOp ==
    [][\A t \in Threads :
          (Calls(t) /\ calls'[t][1].ip \notin {"", LocalIP})
          => ReturnsNilUntouched(t)]_vars

\* An open of a TCP claim and a close of a claim of an unknown protocol, both
\* on an address that is not local, have returned nil while the map holds an
\* entry.
C13_Witness ==
    /\ \A t \in Threads :
          /\ pc[t] = "idle"
          /\ ev[t].kind = "Call"
          /\ calls[t][1].ip = RemoteIP
          /\ errors[t] = << >>
    /\ calls[1][1].op = "open"
    /\ calls[1][1].protocol = ProtocolTCP
    /\ calls[2][1].op = "close"
    /\ calls[2][1].protocol = ProtocolUnknown
    /\ portsMap # << >>

\* The handler of an Added or a Deleted event, and the operation it applies.
BatchOp(t) == IF ev[t].kind = "Added" THEN "open" ELSE "close"

\* The calls of the errors es are, in this order, among the claims ds.
InClaimOrder(es, ds) ==
    \E f \in [1..Len(es) -> 1..Len(ds)] :
        /\ \A i, j \in 1..Len(es) : i < j => f[i] < f[j]
        /\ \A i \in 1..Len(es) : es[i].call = ds[f[i]]

\* C14: an Added or Deleted handler returns only when no claim is left; by
\* then it has called open (close) exactly once for every derived claim
\* that passes the validation, in order, whatever failed before; each claim
\* adds one error when it fails (validation, lookup or OS primitive) and
\* none when it succeeds; and the errors returned are in claim order.
C14_NoShortCircuit ==
    /\ [](\A t \in Threads :
             (pc[t] = "idle" /\ ev[t].kind \in {"Added", "Deleted"})
             => LET ds == DerivedClaims(ev[t].svc, BatchOp(t))
                IN  /\ calls[t] = SelectSeq(ds, PassesValidation)
                    /\ Len(errors[t]) <= Len(ds)
                    /\ InClaimOrder(errors[t], ds))
    /\ [][\A t \in Threads :
             /\ (pc[t] # "idle" /\ pc'[t] = "idle") => queue[t] = << >>
             /\ HandlesPort(t)
                => /\ queue'[t] = Tail(queue[t])
                   /\ \/ errors'[t] = errors[t]
                      \/ /\ Len(errors'[t]) = Len(errors[t]) + 1
                         /\ errors'[t][Len(errors'[t])].call = Head(queue[t])
                   /\ ~PassesValidation(Head(queue[t])) => errors'[t] # errors[t]
             /\ (pc[t] = "critical" /\ pc'[t] # "critical")
                => /\ queue'[t] = queue[t]
                   /\ pc'[t] = "batch"
                   /\ IF OsInvoked(t) /\ OsResult(t).ok
                      THEN errors'[t] = errors[t]
                      ELSE /\ Len(errors'[t]) = Len(errors[t]) + 1
                           /\ errors'[t][Len(errors'[t])].call = cur[t].call]_vars

\* An Added handler has returned one error, of its first claim, having
\* opened its second claim after that.
C14_Witness ==
    \E t \in Threads :
        /\ pc[t] = "idle"
        /\ ev[t].kind = "Added"
        /\ Len(calls[t]) = 2
        /\ Len(errors[t]) = 1
        /\ errors[t][1].call = calls[t][1]
        /\ Len(osCalls[t]) = 2
        /\ ~osCalls[t][1].ok
        /\ osCalls[t][2].ok

\* "<prefix> <namespace>/<name>" with ":<portName>" appended when the port
\* has a name.
Described(prefix, svc, p) ==
    prefix \o " " \o svc.namespace \o "/" \o svc.name
    \o (IF p.name = "" THEN "" ELSE ":" \o p.name)

\* The claims of one declared port: the node port claim when the type
\* exposes node ports, then one claim per external IP in declared order.
ExtractedOfPort(svc, p, op) ==
    (IF svc.type \in {"NodePort", "LoadBalancer"}
     THEN <<[op |-> op, desc |-> Described("nodePort for", svc, p), ip |-> "",
             port |-> p.nodePort, protocol |-> p.protocol]>>
     ELSE << >>)
    \o [i \in 1..Len(svc.externalIPs) |->
          [op |-> op, desc |-> Described("externalIP for", svc, p),
           ip |-> svc.externalIPs[i], port |-> p.port, protocol |-> p.protocol]]

\* The claims of the first n declared ports, in order.
RECURSIVE Extracted(_, _, _)
Extracted(svc, n, op) ==
    IF n = 0 THEN << >>
    ELSE Extracted(svc, n - 1, op) \o ExtractedOfPort(svc, svc.ports[n], op)

\* C15: while an Added or Deleted handler runs and when it has returned, the
\* claims it has still to handle are the rest of, and the open (close) calls
\* it has made are the valid ones among the claims handled so far of, the
\* list: per declared port in order, the node port claim ("" , nodePort,
\* "nodePort for ns/name[:portName]") when the type exposes node ports, then
\* one claim per external IP in order (IP, port, "externalIP for
\* ns/name[:portName]"); a Service without node ports and without external
\* IPs has no claim, no call and no OS call.
C15_Extraction ==
    \A t \in Threads :
        ev[t].kind \in {"Added", "Deleted"} =>
           LET svc == ev[t].svc
               ds == Extracted(svc, Len(svc.ports), BatchOp(t))
               k == Len(ds) - Len(queue[t])
           IN  /\ Len(queue[t]) <= Len(ds)
               /\ queue[t] = SubSeq(ds, k + 1, Len(ds))
               /\ calls[t] = SelectSeq(SubSeq(ds, 1, k), PassesValidation)
               /\ (svc.type \notin {"NodePort", "LoadBalancer"}
                   /\ svc.externalIPs = << >>)
                  => /\ queue[t] = << >>
                     /\ calls[t] = << >>
                     /\ osCalls[t] = << >>

\* The Added handler of a NodePort Service with two declared ports, one of
\* them named, and two external IPs has returned after five open calls (the
\* node port 0 of the named port is not valid).
C15_Witness ==
    \E t \in Threads :
        /\ pc[t] = "idle"
        /\ ev[t].kind = "Added"
        /\ ev[t].svc.type = "NodePort"
        /\ Len(ev[t].svc.ports) = 2
        /\ Len(ev[t].svc.externalIPs) = 2
        /\ Len(calls[t]) = 5

\* C16: handlePort for a claim that fails the port validation calls
\* neither open nor close: it adds one InvalidPort error naming the claim,
\* changes neither the map nor a socket, takes no lock, invokes no OS
\* primitive and emits no event, and the handler goes on with the next
\* claim (it returns only when none is left); no claim ever passed to open
\* or close fails the validation.
C16_InvalidPortSkipped ==
    /\ [](\A t \in Threads : \A i \in 1..Len(calls[t]) :
             /\ calls[t][i].port \in 1..65535
             /\ calls[t][i].protocol \in {ProtocolTCP, ProtocolUDP, ProtocolSCTP})
    /\ [][\A t \in Threads :
             /\ (pc[t] # "idle" /\ pc'[t] = "idle") => queue[t] = << >>
             /\ ( /\ HandlesPort(t)
                  /\ \/ Head(queue[t]).port \notin 1..65535
                     \/ Head(queue[t]).protocol
                           \notin {ProtocolTCP, ProtocolUDP, ProtocolSCTP} )
                => /\ calls'[t] = calls[t]
                   /\ errors'[t] = Append(errors[t],
                                          Err("InvalidPort", Head(queue[t])))
                   /\ queue'[t] = Tail(queue[t])
                   /\ pc'[t] = "batch"
                   /\ cur'[t] = None
                   /\ UNCHANGED <<portsMap, sockets, lock, osCalls, events>>]_vars

\* An Added handler has returned an InvalidPort error for its first claim
\* and has opened its second claim.
C16_Witness ==
    \E t \in Threads :
        /\ pc[t] = "idle"
        /\ ev[t].kind = "Added"
        /\ Len(errors[t]) = 1
        /\ errors[t][1].kind = "InvalidPort"
        /\ errors[t][1].call.port = 0
        /\ Len(calls[t]) = 1
        /\ Len(osCalls[t]) = 1
        /\ osCalls[t][1].ok
        /\ CallLocalPort(calls[t][1]) \in DOMAIN portsMap

\* The map holds an entry with the address, port and protocol of call c.
HoldsSocketOf(c) ==
    \E k \in DOMAIN portsMap :
        k.IP = c.ip /\ k.Port = c.port /\ k.Protocol = c.protocol

\* The map holds an entry with the description, address, port and protocol
\* of call c.
HoldsClaimOf(c) ==
    \E k \in DOMAIN portsMap :
        /\ k.Description = c.desc
        /\ k.IP = c.ip /\ k.Port = c.port /\ k.Protocol = c.protocol

\* C17: an open of a TCP/UDP claim whose address, port and protocol are
\* those of an entry of the map, while no entry has its description too, is
\* not rejected as a duplicate: it invokes the OS open for its own
\* LocalPort; when that succeeds the open returns no error and adds the
\* entry next to the others, and when it fails the open returns
\* ReservationUnavailable and the map stays as it is.
C17_DescriptionInIdentity ==
    [][\A t \in Threads :
          ( /\ LeavesCritical(t, "open")
            /\ HoldsSocketOf(cur[t].call)
            /\ ~HoldsClaimOf(cur[t].call) )
          => /\ OsInvoked(t)
             /\ OsResult(t).op = "open"
             /\ OsResult(t).lp.Description = cur[t].call.desc
             /\ IF OsResult(t).ok
                THEN /\ errors'[t] = errors[t]
                     /\ DOMAIN portsMap' = DOMAIN portsMap \cup {OsResult(t).lp}
                     /\ portsMap'[OsResult(t).lp] = OsResult(t).h
                     /\ \A k \in DOMAIN portsMap : portsMap'[k] = portsMap[k]
                ELSE /\ Failed(t, "ReservationUnavailable")
                     /\ portsMap' = portsMap]_vars

\* The open of the node port claim of one Service has failed at the OS
\* while the map holds the same node port under the description of the
\* other Service.
C17_Witness ==
    \E t \in Threads :
        /\ errors[t] # << >>
        /\ LastError(t).kind = "ReservationUnavailable"
        /\ HoldsSocketOf(LastError(t).call)
        /\ ~HoldsClaimOf(LastError(t).call)
        /\ \E k \in DOMAIN portsMap : sockets[portsMap[k]].bound

\* Two LocalPorts with the same address, port and protocol.
SameSocket(a, b) == a.IP = b.IP /\ a.Port = b.Port /\ a.Protocol = b.Protocol

\* C18 as stated: no two entries of the map share address, port and
\* protocol, and no open invokes the OS open for an address, port and
\* protocol that an entry of the map has.
C18_NeverDoubleOpens ==
    /\ [](\A a, b \in DOMAIN portsMap : SameSocket(a, b) => a = b)
    /\ [][\A t \in Threads :
             (OsInvoked(t) /\ OsResult(t).op = "open")
             => ~HoldsSocketOf(cur[t].call)]_vars

\* C18, amended: no open invokes the OS open for a LocalPort (description,
\* address, port, protocol) that is in the map; and two entries of the map
\* that share address, port and protocol never both have their socket
\* bound.
C18_NeverOpensHeldIdentity ==
    /\ [](\A a, b \in DOMAIN portsMap :
             (SameSocket(a, b) /\ a # b)
             => ~(sockets[portsMap[a]].bound /\ sockets[portsMap[b]].bound))
    /\ [][\A t \in Threads :
             (OsInvoked(t) /\ OsResult(t).op = "open")
             => /\ ~HoldsClaimOf(cur[t].call)
                /\ OsResult(t).lp \notin DOMAIN portsMap]_vars

\* The map holds two entries with the same address, port and protocol: the
\* socket of one was released by a Close() that returned an error, the
\* socket of the other is bound.
C18_Witness ==
    \E a, b \in DOMAIN portsMap :
        /\ a # b
        /\ SameSocket(a, b)
        /\ ~sockets[portsMap[a]].bound
        /\ sockets[portsMap[b]].bound

\* Thread t runs a direct open call that has not returned to its caller.
OpenInFlight(t) ==
    /\ pc[t] # "idle"
    /\ ev[t].kind = "Call"
    /\ calls[t][1].op = "open"
    /\ calls[t][1].protocol \in {ProtocolTCP, ProtocolUDP}
    /\ calls[t][1].ip \in {"", LocalIP}

\* The open calls of t and u are in flight together and for one identity.
Overlap(t, u) ==
    t # u /\ OpenInFlight(t) /\ OpenInFlight(u) /\ calls[t][1] = calls[u][1]

\* The open call of t has left its critical section, with this outcome.
OpenDone(t) == pc[t] = "batch"

OpenSucceeded(t) == OpenDone(t) /\ errors[t] = << >>

OpenRejected(t, kind) ==
    OpenDone(t) /\ Len(errors[t]) = 1 /\ errors[t][1].kind = kind

\* C19: with open calls only, on a ledger that starts empty: of two open
\* calls for one identity that are in flight together, at most one
\* succeeds; the one whose OS open succeeds returns no error and its handle
\* is the one entry of the identity, and it is the only socket of the
\* identity; a call that runs after it is rejected as a duplicate
\* without an OS call; a call that runs after a call whose OS open failed,
\* the identity not being in the map, invokes the OS open itself; and when
\* both OS opens failed the identity is not in the map.
C19_ConcurrentSameIdentity ==
    /\ [](\A t, u \in Threads :
             Overlap(t, u) =>
                LET lp == CallLocalPort(calls[t][1])
                IN  /\ ~(OpenSucceeded(t) /\ OpenSucceeded(u))
                    /\ OpenSucceeded(t)
                       => /\ Len(osCalls[t]) = 1
                          /\ osCalls[t][1].ok
                          /\ lp \in DOMAIN portsMap
                          /\ portsMap[lp] = osCalls[t][1].h
                          /\ {h \in 1..Len(sockets) : sockets[h].lp = lp}
                                = {portsMap[lp]}
                    /\ OpenRejected(t, "DuplicateClaim")
                       => osCalls[t] = << >> /\ lp \in DOMAIN portsMap
                    /\ OpenRejected(t, "ReservationUnavailable")
                       => Len(osCalls[t]) = 1 /\ ~osCalls[t][1].ok
                    /\ ( /\ OpenRejected(t, "ReservationUnavailable")
                         /\ OpenRejected(u, "ReservationUnavailable") )
                       => lp \notin DOMAIN portsMap)
    /\ [][\A t, u \in Threads :
             (Overlap(t, u) /\ LeavesCritical(t, "open"))
             => /\ OpenSucceeded(u)
                   => Failed(t, "DuplicateClaim") /\ osCalls'[t] = osCalls[t]
                /\ ( /\ OpenRejected(u, "ReservationUnavailable")
                     /\ cur[t].lp \notin DOMAIN portsMap )
                   => OsInvoked(t)]_vars

\* Two open calls for one identity are in flight together: the OS open of
\* one has succeeded, the other has been rejected as a duplicate.
C19_Witness ==
    \E t, u \in Threads :
        /\ Overlap(t, u)
        /\ OpenSucceeded(t)
        /\ OpenRejected(u, "DuplicateClaim")
        /\ Cardinality(DOMAIN portsMap) = 1

\* The LocalPorts of the claims derived from a Service.
ClaimedLocalPorts(svc) ==
    {CallLocalPort(DerivedClaims(svc, "open")[k]) :
        k \in 1..Len(DerivedClaims(svc, "open"))}

\* The LocalPorts the handler of thread t found in the map when it closed
\* them: they were held when the handler started.
FoundHeld(t) ==
    {osCalls[t][i].lp : i \in {j \in 1..Len(osCalls[t]) : osCalls[t][j].op = "close"}}

\* C20: when an Updated handler returns, every LocalPort that both the old
\* and the new object claim and that the map held when the handler started
\* is in the map, whatever the handlers of the other Service did meanwhile,
\* on an OS whose open fails only for an address, port and protocol that
\* are bound.
C20_UpdateKeepsReservation ==
    \A t \in Threads :
        UpdatedReturned(t) =>
           \A lp \in (ClaimedLocalPorts(ev[t].old) \cap ClaimedLocalPorts(ev[t].svc))
                     \cap FoundHeld(t) :
              lp \in DOMAIN portsMap

\* Thread t runs, or has last run, the handler of a re-delivered Add.
Redelivered(t) == ev[t].kind = "Added" /\ ev[t].old = ev[t].svc

\* The open calls of thread t that reach the map lookup.
LookedUp(t) ==
    SelectSeq(calls[t],
              LAMBDA c : /\ c.protocol \in {ProtocolTCP, ProtocolUDP}
                         /\ c.ip \in {"", LocalIP})

\* C21: no step of the handler of a re-delivered Add removes an entry of
\* the map or changes its handle; its open of a LocalPort that is in the map
\* adds one DuplicateClaim error and invokes no OS primitive; its open of a
\* LocalPort that is not in the map invokes the OS open, and records the
\* handle when that succeeds and changes nothing when it fails; and when the
\* handler has returned, every open call that reached the lookup has either
\* its DuplicateClaim error or its OS call, the errors are of held or
\* refused claims only, and every LocalPort whose OS open succeeded is in
\* the map with the handle returned.
C21_ReAddedIdempotent ==
    /\ [](\A t \in Threads :
             (Redelivered(t) /\ pc[t] = "idle")
             => /\ Len(LookedUp(t))
                     = Len(SelectSeq(errors[t],
                                     LAMBDA e : e.kind = "DuplicateClaim"))
                       + Len(osCalls[t])
                /\ \A i \in 1..Len(errors[t]) :
                      /\ errors[t][i].kind = "DuplicateClaim"
                         => CallLocalPort(errors[t][i].call) \in DOMAIN portsMap
                      /\ errors[t][i].kind
                            \in {"DuplicateClaim", "ReservationUnavailable",
                                 "InvalidPort"}
                /\ \A i \in 1..Len(osCalls[t]) :
                      /\ osCalls[t][i].op = "open"
                      /\ osCalls[t][i].ok
                         => /\ osCalls[t][i].lp \in DOMAIN portsMap
                            /\ portsMap[osCalls[t][i].lp] = osCalls[t][i].h)
    /\ [][\A t \in Threads :
             (Redelivered(t) /\ pc[t] # "idle")
             => /\ \A k \in DOMAIN portsMap :
                      k \in DOMAIN portsMap' /\ portsMap'[k] = portsMap[k]
                /\ \A h \in 1..Len(sockets) : sockets'[h] = sockets[h]
                /\ (pc[t] = "critical" /\ pc'[t] # "critical")
                   => IF cur[t].lp \in DOMAIN portsMap
                      THEN /\ Failed(t, "DuplicateClaim")
                           /\ osCalls'[t] = osCalls[t]
                           /\ portsMap' = portsMap
                      ELSE /\ OsInvoked(t)
                           /\ OsResult(t).lp = cur[t].lp
                           /\ IF OsResult(t).ok
                              THEN /\ errors'[t] = errors[t]
                                   /\ DOMAIN portsMap'
                                         = DOMAIN portsMap \cup {cur[t].lp}
                                   /\ portsMap'[cur[t].lp] = OsResult(t).h
                              ELSE /\ Failed(t, "ReservationUnavailable")
                                   /\ portsMap' = portsMap]_vars

\* The handler of a re-delivered Add has returned: the node port claim,
\* held since the first delivery, was rejected as a duplicate and kept its
\* handle; the external IP claim, whose open had failed before, was opened.
C21_Witness ==
    \E t \in Threads :
        /\ Redelivered(t)
        /\ pc[t] = "idle"
        /\ Len(calls[t]) = 2
        /\ Len(errors[t]) = 1
        /\ errors[t][1].kind = "DuplicateClaim"
        /\ errors[t][1].call = calls[t][1]
        /\ portsMap[CallLocalPort(calls[t][1])] = 1
        /\ Len(osCalls[t]) = 1
        /\ osCalls[t][1].ok
        /\ osCalls[t][1].lp = CallLocalPort(calls[t][2])
        /\ portsMap[CallLocalPort(calls[t][2])] = 2

====
